---- MODULE Spec2Model ----
(***************************************************************************)
(* Model of the per-connection session handler of whisperlivekit:          *)
(*   websocket_endpoint        (basic_server.py, lines 82-200)             *)
(*   handle_websocket_results  (basic_server.py, lines 51-79)              *)
(*   audio_processor_cleanup   (basic_server.py, lines 204-219)            *)
(* The handler coroutine and the emit task run on one asyncio event loop:  *)
(* a step of the model is the code one coroutine runs between two of its   *)
(* suspension points (await).  The client, the transport and the session   *)
(* processor's result generator are the environment.                       *)
(***************************************************************************)
EXTENDS Naturals, Sequences, FiniteSets

VARIABLES
    hpc,          \* position of websocket_endpoint
    epc,          \* position of the task running handle_websocket_results
    cancelReq,    \* websocket_task.cancel() was called on a pending task
    emitEnd,      \* how handle_websocket_results ended
    apState,      \* audio_processor: "none", "live", "stopping" (is_stopping)
    genState,     \* results_generator: "none", "open", "closed", "failed"
    results,      \* deltas the generator holds ready, oldest first
    produced,     \* number of deltas the generator has produced so far
    cur,          \* the delta handle_websocket_results is sending (0: none)
    sendLog,      \* every send_json call on the websocket, in call order
    audioLog,     \* payloads passed to audio_processor.process_audio
    rxBinary,     \* payloads of the binary frames websocket.receive returned
    rxText,       \* kinds of the text frames it returned in the ingest loop
    teardownLog,  \* the calls the finally block made, in order
    cleanupCalls, \* number of audio_processor.cleanup() calls
    exitReason,   \* why the ingest loop was left
    closeCode,    \* code given to websocket.close (0: close not called)
    escaped,      \* an exception left websocket_endpoint
    connGone,     \* receive() has returned the disconnect message
    nRecv,        \* frames received that kept a loop going
    hsProbes,     \* config messages received by the handshake loop
    hsEnd,        \* the message the handshake loop ended on ("none": running)
    hsFail,       \* the call that raised in the handshake ("none": no call)
    \* TokenDeduplicator (token_deduplicator.py)
    token_history,        \* validated tokens, oldest first
    history_size,         \* configured bound of token_history
    similarity_threshold, \* configured, in tenths
    last_token_time,      \* end time of the last validated token
    \* SilenceStateManager (silence_state_manager.py)
    is_in_silence,
    silence_start_time,   \* None or Some(t)
    pending_tokens,
    last_speech_end_time, \* None or Some(t)
    \* TokenProcessingState (token_processing_state.py)
    last_output_time,
    last_token_id,        \* None or Some(id)
    buffer_validation_state, \* the keys of the mapping
    \* The call made last on these objects, its argument and what it returned.
    lastOp,               \* "idle": the caller holds no unconsumed result
    argTok,
    argTime,
    retBool,
    retToks,
    nOps,                 \* calls made so far that a specification bounds
    sinceFlush,           \* tokens given to add_pending_token since
                          \* pending_tokens was last emptied
    \* The dedup filter: tokens fed to it and tokens it emitted.
    fedTokens,
    emitted

sessVars == <<hpc, epc, cancelReq, emitEnd, apState, genState, results,
              produced, cur, sendLog, audioLog, rxBinary, rxText, teardownLog,
              cleanupCalls, exitReason, closeCode, escaped, connGone, nRecv,
              hsProbes, hsEnd, hsFail>>

dedupVars == <<token_history, history_size, similarity_threshold,
               last_token_time>>
silenceVars == <<is_in_silence, silence_start_time, pending_tokens,
                 last_speech_end_time>>
stateVars == <<last_output_time, last_token_id, buffer_validation_state>>
callVars == <<lastOp, argTok, argTime, retBool, retToks, nOps>>
filterVars == <<fedTokens, emitted>>
tokVars == <<dedupVars, silenceVars, stateVars, callVars, sinceFlush,
             filterVars>>

vars == <<sessVars, tokVars>>

\* Bounds of the model.
MaxFrames == 2
MaxDeltas == 2

\* Payloads of binary frames: 0 is the zero-length frame, 1 an audio chunk.
Payloads == {0, 1}

\* websocket.close(code=1003)
CloseInvalidData == 1003

ConfigMsg == [type |-> "config", id |-> 0]
ReadyMsg == [type |-> "ready_to_stop", id |-> 0]
DeltaMsg(i) == [type |-> "delta", id |-> i]

EmitRunning == {"waitNext", "sendDelta", "sendReady"}
EmitEnded == {"done", "cancelled"}

\* A send_json call: who made it, the message, and what became of it.
SendCall(by, msg) == [by |-> by, msg |-> msg, res |-> "inflight"]

\* The outcome of the pending send_json call of task `by` (its last call).
RECURSIVE Settle(_, _, _)
Settle(log, by, res) ==
    IF log = <<>> THEN <<>>
    ELSE LET n == Len(log) IN
         IF log[n].by = by /\ log[n].res = "inflight"
         THEN Append(SubSeq(log, 1, n - 1), [log[n] EXCEPT !.res = res])
         ELSE Append(Settle(SubSeq(log, 1, n - 1), by, res), log[n])

(***************************************************************************)
(* Values of the token-processing classes.  Times are in tenths of a       *)
(* second: 0.5 s is 5, 10.0 s is 100.  An Optional field is None or        *)
(* Some(x).                                                                *)
(***************************************************************************)
None == <<>>
Some(x) == <<x>>

\* An ASRToken, as far as these classes read it: text, start, end.
Tok(text, start, end) == [text |-> text, start |-> start, end |-> end]
NoToken == Tok("", 0, 0)

\* TokenDeduplicator.__init__ defaults (token_deduplicator.py:19).
DefaultHistorySize == 50
DefaultSimilarityThreshold == 9

\* is_duplicate looks at token_history[-10:] (token_deduplicator.py:46, 52)
\* and calls starts closer than 0.5 s the same (token_deduplicator.py:54).
Lookback == 10
DuplicateWindow == 5

\* SilenceStateManager.__init__ (silence_state_manager.py:20-25).
SilenceFresh ==
    /\ is_in_silence = FALSE
    /\ silence_start_time = None
    /\ pending_tokens = <<>>
    /\ last_speech_end_time = None

\* TokenDeduplicator.__init__ but for the two configured fields
\* (token_deduplicator.py:27, 30).
DedupFresh ==
    /\ token_history = <<>>
    /\ last_token_time = 0

\* TokenProcessingState(): the dataclass defaults and __post_init__
\* (token_processing_state.py:19-32).
StateFresh ==
    /\ last_output_time = 0
    /\ last_token_id = None
    /\ SilenceFresh
    /\ DedupFresh
    /\ buffer_validation_state = {}

\* No call has been made yet.
CallIdle ==
    /\ lastOp = "idle"
    /\ argTok = NoToken
    /\ argTime = 0
    /\ retBool = FALSE
    /\ retToks = <<>>

TokInit ==
    /\ StateFresh
    /\ history_size = DefaultHistorySize
    /\ similarity_threshold = DefaultSimilarityThreshold
    /\ CallIdle
    /\ nOps = 0
    /\ sinceFlush = <<>>
    /\ fedTokens = <<>>
    /\ emitted = <<>>

SessionInit ==
    /\ hpc = "handshake"
    /\ epc = "none"
    /\ cancelReq = FALSE
    /\ emitEnd = "none"
    /\ apState = "none"
    /\ genState = "none"
    /\ results = <<>>
    /\ produced = 0
    /\ cur = 0
    /\ sendLog = <<>>
    /\ audioLog = <<>>
    /\ rxBinary = <<>>
    /\ rxText = <<>>
    /\ teardownLog = <<>>
    /\ cleanupCalls = 0
    /\ exitReason = "none"
    /\ closeCode = 0
    /\ escaped = FALSE
    /\ connGone = FALSE
    /\ nRecv = 0
    /\ hsProbes = 0
    /\ hsEnd = "none"
    /\ hsFail = "none"

\* A connection is accepted; the token-processing objects are as constructed.
Init == SessionInit /\ TokInit

(***************************************************************************)
(* websocket_endpoint, step 1: the handshake loop (lines 92-120).          *)
(* The finally block (187-200) does nothing here but log: audio_processor  *)
(* is None and websocket_task is not a local yet.                          *)
(***************************************************************************)
HsUnchanged ==
    UNCHANGED <<epc, cancelReq, emitEnd, apState, genState, results, produced,
                cur, audioLog, rxBinary, rxText, teardownLog, cleanupCalls,
                exitReason, escaped, connGone, tokVars>>

\* receive_json returned {"type": "config", ...}: lines 95-105.  The reply is
\* sent; when send_json raises, line 185 catches it and the handler ends.
HsConfig(ok) ==
    /\ hpc = "handshake"
    /\ nRecv < MaxFrames
    /\ nRecv' = nRecv + 1
    /\ sendLog' = Append(sendLog, [by |-> "handshake", msg |-> ConfigMsg,
                                   res |-> IF ok THEN "ok" ELSE "fail"])
    /\ hsProbes' = hsProbes + 1
    /\ IF ok THEN hpc' = "handshake" /\ UNCHANGED <<hsEnd, hsFail>>
             ELSE hpc' = "done" /\ hsEnd' = "config" /\ hsFail' = "send"
    /\ UNCHANGED closeCode
    /\ HsUnchanged

\* Fault variant of HsOther: any message that is not a config probe starts the
\* session with the default language.
HsOtherStarts ==
    /\ hpc = "handshake"
    /\ hsEnd' = "other"
    /\ apState' = "live"
    /\ genState' = "open"
    /\ epc' = "waitNext"
    /\ hpc' = "ingest"
    /\ UNCHANGED <<cancelReq, emitEnd, results, produced, cur, sendLog,
                   audioLog, rxBinary, rxText, teardownLog, cleanupCalls,
                   exitReason, closeCode, escaped, connGone, nRecv, hsProbes,
                   hsFail, tokVars>>

\* receive_json returned an object whose "type" is not "config" and whose
\* "command" is neither "start": lines 115-120.
HsOther ==
    /\ hpc = "handshake"
    /\ closeCode' = CloseInvalidData
    /\ hpc' = "done"
    /\ hsEnd' = "other"
    /\ UNCHANGED <<sendLog, nRecv, hsProbes, hsFail>>
    /\ HsUnchanged

\* receive_json returned JSON that is not an object (a list, a string, a
\* number): init_msg.get at line 95 raises AttributeError, caught at 185.
HsNonObject ==
    /\ hpc = "handshake"
    /\ hpc' = "done"
    /\ hsEnd' = "nonobject"
    /\ UNCHANGED <<sendLog, nRecv, closeCode, hsProbes, hsFail>>
    /\ HsUnchanged

\* receive_json raised at line 93 (the client disconnected, or the frame was
\* binary or not JSON): caught at 185.
HsReceiveError ==
    /\ hpc = "handshake"
    /\ hpc' = "done"
    /\ hsEnd' = "error"
    /\ hsFail' = "receive"
    /\ UNCHANGED <<sendLog, nRecv, closeCode, hsProbes>>
    /\ HsUnchanged

\* receive_json returned {"command": "start", ...}: lines 108-113, then steps
\* 2 and 3 (lines 123-131).  The task of handle_websocket_results is created;
\* its code up to its first await (the generator's next item, line 54) has no
\* effect, so the task is modelled as waiting there from its creation.
\* outcome: "ok", "ctorRaise" (AudioProcessor(...) raised, line 123) or
\* "tasksRaise" (create_tasks() raised, line 128); both are caught at 185.
HsStartOk ==
    /\ UNCHANGED hsFail
    /\ apState' = "live"
    /\ genState' = "open"
    /\ epc' = "waitNext"
    /\ hpc' = "ingest"

HsStartCtorRaise ==
    /\ hsFail' = "ctor"
    /\ hpc' = "done"
    /\ UNCHANGED <<apState, genState, epc>>

HsStartTasksRaise ==
    /\ hsFail' = "tasks"
    /\ apState' = "live"
    /\ hpc' = "finally"
    /\ UNCHANGED <<genState, epc>>

HsStart(outcome) ==
    /\ hpc = "handshake"
    /\ hsEnd' = "start"
    /\ CASE outcome = "ok" -> HsStartOk
         [] outcome = "ctorRaise" -> HsStartCtorRaise
         [] outcome = "tasksRaise" -> HsStartTasksRaise
    /\ UNCHANGED <<cancelReq, emitEnd, results, produced, cur, sendLog,
                   audioLog, rxBinary, rxText, teardownLog, cleanupCalls,
                   exitReason, closeCode, escaped, connGone, nRecv, hsProbes,
                   tokVars>>

StartOutcomes == {"ok", "ctorRaise", "tasksRaise"}

(***************************************************************************)
(* websocket_endpoint, step 4: the ingest loop (lines 134-183).  Every way *)
(* out of the loop is a break: the code after the loop is the finally      *)
(* block.                                                                  *)
(***************************************************************************)
IngestUnchanged ==
    UNCHANGED <<epc, cancelReq, emitEnd, genState, results, produced, cur,
                teardownLog, cleanupCalls, closeCode, escaped, hsProbes,
                hsEnd, hsFail, tokVars>>

\* The loop is left (break at 166, 170, 181 or 183).
LeaveLoop(reason) ==
    /\ hpc' = "finally"
    /\ exitReason' = reason

\* Fault variant of IngestAudio: the test of line 139 is on the truth of the
\* bytes, so a zero-length frame is not forwarded.
IngestAudioSkipsEmpty(payload, ok) ==
    /\ hpc = "ingest"
    /\ ~connGone
    /\ nRecv < MaxFrames
    /\ nRecv' = nRecv + 1
    /\ rxBinary' = Append(rxBinary, payload)
    /\ audioLog' = IF payload = 0 THEN audioLog ELSE Append(audioLog, payload)
    /\ IF ok \/ payload = 0 THEN UNCHANGED <<hpc, exitReason>>
                            ELSE LeaveLoop("error")
    /\ UNCHANGED <<apState, sendLog, rxText, connGone>>
    /\ IngestUnchanged

\* Fault variant of IngestAudio: the newest frame is handed over ahead of the
\* ones before it.
IngestAudioReorders(payload, ok) ==
    /\ hpc = "ingest"
    /\ ~connGone
    /\ nRecv < MaxFrames
    /\ nRecv' = nRecv + 1
    /\ rxBinary' = Append(rxBinary, payload)
    /\ audioLog' = <<payload>> \o audioLog
    /\ IF ok THEN UNCHANGED <<hpc, exitReason>> ELSE LeaveLoop("error")
    /\ UNCHANGED <<apState, sendLog, rxText, connGone>>
    /\ IngestUnchanged

\* A binary frame, the zero-length one included (b"" is not None): lines
\* 139-141.  When process_audio raises, line 171 catches it and 183 breaks.
IngestAudio(payload, ok) ==
    /\ hpc = "ingest"
    /\ ~connGone
    /\ nRecv < MaxFrames
    /\ nRecv' = nRecv + 1
    /\ rxBinary' = Append(rxBinary, payload)
    /\ audioLog' = Append(audioLog, payload)
    /\ IF ok THEN UNCHANGED <<hpc, exitReason>> ELSE LeaveLoop("error")
    /\ UNCHANGED <<apState, sendLog, rxText, connGone>>
    /\ IngestUnchanged

\* A text frame holding {"type": "config", ...}: lines 144-159, up to the
\* await of send_json, which the handler makes itself.
IngestConfigBegin ==
    /\ hpc = "ingest"
    /\ ~connGone
    /\ nRecv < MaxFrames
    /\ nRecv' = nRecv + 1
    /\ sendLog' = Append(sendLog, SendCall("ingest", ConfigMsg))
    /\ hpc' = "cfgReply"
    /\ rxText' = Append(rxText, "config")
    /\ UNCHANGED <<apState, audioLog, rxBinary, exitReason, connGone>>
    /\ IngestUnchanged

\* send_json of the reply returns (lines 159-162) or raises (171, 182-183).
IngestConfigEnd(ok) ==
    /\ hpc = "cfgReply"
    /\ sendLog' = Settle(sendLog, "ingest", IF ok THEN "ok" ELSE "fail")
    /\ IF ok THEN hpc' = "ingest" /\ UNCHANGED exitReason
             ELSE LeaveLoop("error")
    /\ UNCHANGED <<apState, audioLog, rxBinary, rxText, connGone, nRecv>>
    /\ IngestUnchanged

\* Fault variant of IngestStop: the handler itself tells the client that the
\* session is over before it breaks.
IngestStopAnnounces ==
    /\ hpc = "ingest"
    /\ ~connGone
    /\ LeaveLoop("stop")
    /\ sendLog' = Append(sendLog, [by |-> "ingest", msg |-> ReadyMsg,
                                   res |-> "ok"])
    /\ rxText' = Append(rxText, "stop")
    /\ UNCHANGED <<apState, audioLog, rxBinary, connGone, nRecv>>
    /\ IngestUnchanged

\* A text frame holding {"command": "stop"}: lines 164-166.
IngestStop ==
    /\ hpc = "ingest"
    /\ ~connGone
    /\ LeaveLoop("stop")
    /\ rxText' = Append(rxText, "stop")
    /\ UNCHANGED <<apState, sendLog, audioLog, rxBinary, connGone, nRecv>>
    /\ IngestUnchanged

\* A text frame that is not JSON (data = {}, line 149) or an object with
\* neither key: no branch is taken and the loop goes on.
IngestIgnoredText ==
    /\ hpc = "ingest"
    /\ ~connGone
    /\ nRecv < MaxFrames
    /\ nRecv' = nRecv + 1
    /\ rxText' = Append(rxText, "ignored")
    /\ UNCHANGED <<hpc, apState, sendLog, audioLog,
                   rxBinary, exitReason, connGone>>
    /\ IngestUnchanged

\* A text frame holding JSON that is not an object: data.get at line 152
\* raises AttributeError, caught at 171; line 183 breaks.
IngestNonObjectText ==
    /\ hpc = "ingest"
    /\ ~connGone
    /\ LeaveLoop("error")
    /\ rxText' = Append(rxText, "nonobject")
    /\ UNCHANGED <<apState, sendLog, audioLog, rxBinary, connGone, nRecv>>
    /\ IngestUnchanged

\* receive() returned the disconnect message, which has neither "bytes" nor
\* "text": lines 139 and 144 both fail and the loop calls receive() again.
IngestDisconnectMsg ==
    /\ hpc = "ingest"
    /\ ~connGone
    /\ connGone' = TRUE
    /\ UNCHANGED <<hpc, apState, sendLog, audioLog, rxBinary, rxText,
                   exitReason, nRecv>>
    /\ IngestUnchanged

\* Fault variant of IngestDisconnect: the disconnect ends the handler at once,
\* without the teardown of the finally block.
IngestDisconnectSkipsTeardown ==
    /\ hpc = "ingest"
    /\ ~connGone
    /\ hpc' = "done"
    /\ exitReason' = "disconnect"
    /\ UNCHANGED <<apState, sendLog, audioLog, rxBinary,
                   rxText, connGone, nRecv>>
    /\ IngestUnchanged

\* receive() raised WebSocketDisconnect: lines 168-170.
IngestDisconnect ==
    /\ hpc = "ingest"
    /\ ~connGone
    /\ LeaveLoop("disconnect")
    /\ UNCHANGED <<apState, sendLog, audioLog, rxBinary,
                   rxText, connGone, nRecv>>
    /\ IngestUnchanged

\* receive() called after the disconnect message raises RuntimeError: lines
\* 171-181.
IngestAfterDisconnect ==
    /\ hpc = "ingest"
    /\ connGone
    /\ LeaveLoop("disconnect")
    /\ UNCHANGED <<apState, sendLog, audioLog, rxBinary,
                   rxText, connGone, nRecv>>
    /\ IngestUnchanged

\* receive() raised anything else: lines 171, 182-183.
IngestReceiveError ==
    /\ hpc = "ingest"
    /\ ~connGone
    /\ LeaveLoop("error")
    /\ UNCHANGED <<apState, sendLog, audioLog, rxBinary,
                   rxText, connGone, nRecv>>
    /\ IngestUnchanged

(***************************************************************************)
(* websocket_endpoint, the finally block (lines 187-200), entered with     *)
(* audio_processor set.                                                    *)
(***************************************************************************)
\* audio_processor_cleanup (lines 204-219) has no await in it: it runs to its
\* end, or to the statement that raises, without the event loop running any
\* other task.  is_stopping is set first (line 206).
ApCleanup ==
    /\ apState' = "stopping"
    /\ cleanupCalls' = cleanupCalls + 1

\* Lines 189-192.  cleanup() is awaited first.  When it raises, the exception
\* leaves the finally block and the handler: lines 191-198 are not run.
\* Otherwise, when websocket_task is a local, cancel() is called on it at once
\* (no await lies between 190 and 192); cancel() does nothing to a task that
\* has ended.
FinallyCleanup(raises) ==
    /\ hpc = "finally"
    /\ ApCleanup
    /\ IF raises
       THEN /\ teardownLog' = Append(teardownLog, "cleanup")
            /\ escaped' = TRUE
            /\ hpc' = "done"
            /\ UNCHANGED cancelReq
       ELSE IF epc = "none"
       THEN /\ teardownLog' = Append(teardownLog, "cleanup")
            /\ hpc' = "done"
            /\ UNCHANGED <<escaped, cancelReq>>
       ELSE /\ teardownLog' = teardownLog \o <<"cleanup", "cancel">>
            /\ cancelReq' = (epc \in EmitRunning)
            /\ hpc' = "awaitTask"
            /\ UNCHANGED escaped
    /\ UNCHANGED <<epc, emitEnd, genState, results, produced, cur, sendLog,
                   audioLog, rxBinary, rxText, exitReason, closeCode,
                   connGone, nRecv, hsProbes, hsEnd, hsFail, tokVars>>

\* Lines 193-200: await websocket_task returns, or raises CancelledError
\* (swallowed at 195), once the task has ended.
FinallyAwait ==
    /\ hpc = "awaitTask"
    /\ epc \in EmitEnded
    /\ teardownLog' = Append(teardownLog, "await")
    /\ hpc' = "done"
    /\ UNCHANGED <<epc, cancelReq, emitEnd, apState, genState, results,
                   produced, cur, sendLog, audioLog, rxBinary, rxText,
                   cleanupCalls, exitReason, closeCode, escaped, connGone,
                   nRecv, hsProbes, hsEnd, hsFail, tokVars>>

(***************************************************************************)
(* handle_websocket_results (lines 51-79).  A cancelled task is resumed     *)
(* with CancelledError at the await it is suspended in; no handler of the   *)
(* function catches it (it is not an Exception), so no other step of the    *)
(* task is possible once cancel() was called.                               *)
(***************************************************************************)
EmitUnchanged ==
    UNCHANGED <<hpc, cancelReq, apState, genState, produced, audioLog,
                rxBinary, rxText, teardownLog, cleanupCalls, exitReason,
                closeCode, escaped, connGone, nRecv, hsProbes, hsEnd, hsFail,
                tokVars>>

\* Line 54 yields the next response; line 56 calls send_json with it.
EmitNext ==
    /\ epc = "waitNext"
    /\ ~cancelReq
    /\ results # <<>>
    /\ cur' = Head(results)
    /\ results' = Tail(results)
    /\ sendLog' = Append(sendLog, SendCall("emit", DeltaMsg(Head(results))))
    /\ epc' = "sendDelta"
    /\ UNCHANGED emitEnd
    /\ EmitUnchanged

\* Fault variant of EmitSendDeltaEnd: a failed send goes on with the next
\* response (continue in place of return at line 61).
EmitSendDeltaEndContinue(ok) ==
    /\ epc = "sendDelta"
    /\ ~cancelReq
    /\ sendLog' = Settle(sendLog, "emit", IF ok THEN "ok" ELSE "fail")
    /\ cur' = 0
    /\ epc' = "waitNext"
    /\ UNCHANGED <<results, emitEnd>>
    /\ EmitUnchanged

\* send_json of a delta returns (back to line 54) or raises (lines 57-61:
\* the function returns).
EmitSendDeltaEnd(ok) ==
    /\ epc = "sendDelta"
    /\ ~cancelReq
    /\ sendLog' = Settle(sendLog, "emit", IF ok THEN "ok" ELSE "fail")
    /\ cur' = 0
    /\ IF ok THEN epc' = "waitNext" /\ UNCHANGED emitEnd
             ELSE epc' = "done" /\ emitEnd' = "sendFailed"
    /\ UNCHANGED results
    /\ EmitUnchanged

\* Fault variant of EmitExhausted: the function ends without ready_to_stop.
EmitExhaustedSilent ==
    /\ epc = "waitNext"
    /\ ~cancelReq
    /\ results = <<>>
    /\ genState = "closed"
    /\ epc' = "done"
    /\ emitEnd' = "finished"
    /\ UNCHANGED <<cur, results, sendLog>>
    /\ EmitUnchanged

\* The generator is exhausted: lines 62-65, up to the await of send_json.
EmitExhausted ==
    /\ epc = "waitNext"
    /\ ~cancelReq
    /\ results = <<>>
    /\ genState = "closed"
    /\ sendLog' = Append(sendLog, SendCall("emit", ReadyMsg))
    /\ epc' = "sendReady"
    /\ UNCHANGED <<cur, results, emitEnd>>
    /\ EmitUnchanged

\* send_json of ready_to_stop returns, or raises (lines 66-67); the function
\* ends either way.
EmitSendReadyEnd(ok) ==
    /\ epc = "sendReady"
    /\ ~cancelReq
    /\ sendLog' = Settle(sendLog, "emit", IF ok THEN "ok" ELSE "fail")
    /\ epc' = "done"
    /\ emitEnd' = IF ok THEN "finished" ELSE "readyFailed"
    /\ UNCHANGED <<cur, results>>
    /\ EmitUnchanged

\* The generator raises: caught at line 68 or 72, the function ends.
EmitGenError ==
    /\ epc = "waitNext"
    /\ ~cancelReq
    /\ results = <<>>
    /\ genState = "failed"
    /\ epc' = "done"
    /\ emitEnd' = "genError"
    /\ UNCHANGED <<cur, results, sendLog>>
    /\ EmitUnchanged

\* CancelledError is thrown into the task where it waits.  A send_json that
\* was in flight may or may not have put its message on the wire.
EmitCancelled(delivered) ==
    /\ epc \in EmitRunning
    /\ cancelReq
    /\ IF epc = "waitNext"
       THEN ~delivered /\ UNCHANGED sendLog
       ELSE sendLog' = Settle(sendLog, "emit", IF delivered THEN "ok" ELSE "lost")
    /\ epc' = "cancelled"
    /\ emitEnd' = "cancelled"
    /\ cur' = 0
    /\ UNCHANGED results
    /\ EmitUnchanged

(***************************************************************************)
(* The session processor's result generator (external): it produces deltas *)
(* 1, 2, ... in this order while its consumer runs, and then ends or       *)
(* raises.                                                                 *)
(***************************************************************************)
GenUnchanged ==
    UNCHANGED <<hpc, epc, cancelReq, emitEnd, apState, cur, sendLog, audioLog,
                rxBinary, rxText, teardownLog, cleanupCalls, exitReason,
                closeCode, escaped, connGone, nRecv, hsProbes, hsEnd, hsFail,
                tokVars>>

Produce ==
    /\ genState = "open"
    /\ epc \in EmitRunning
    /\ produced < MaxDeltas
    /\ produced' = produced + 1
    /\ results' = Append(results, produced + 1)
    /\ UNCHANGED genState
    /\ GenUnchanged

GenClose ==
    /\ genState = "open"
    /\ epc \in EmitRunning
    /\ genState' = "closed"
    /\ UNCHANGED <<results, produced>>
    /\ GenUnchanged

GenFail ==
    /\ genState = "open"
    /\ epc \in EmitRunning
    /\ genState' = "failed"
    /\ UNCHANGED <<results, produced>>
    /\ GenUnchanged

HandlerStep ==
    \/ \E ok \in BOOLEAN : HsConfig(ok)
    \/ \E outcome \in StartOutcomes : HsStart(outcome)
    \/ HsOther
    \/ HsNonObject
    \/ HsReceiveError
    \/ \E payload \in Payloads, ok \in BOOLEAN : IngestAudio(payload, ok)
    \/ IngestConfigBegin
    \/ \E ok \in BOOLEAN : IngestConfigEnd(ok)
    \/ IngestStop
    \/ IngestIgnoredText
    \/ IngestNonObjectText
    \/ IngestDisconnectMsg
    \/ IngestDisconnect
    \/ IngestAfterDisconnect
    \/ IngestReceiveError
    \/ \E raises \in BOOLEAN : FinallyCleanup(raises)
    \/ FinallyAwait

EmitStep ==
    \/ EmitNext
    \/ \E ok \in BOOLEAN : EmitSendDeltaEnd(ok)
    \/ EmitExhausted
    \/ \E ok \in BOOLEAN : EmitSendReadyEnd(ok)
    \/ EmitGenError
    \/ \E delivered \in BOOLEAN : EmitCancelled(delivered)

GenStep ==
    \/ Produce
    \/ GenClose
    \/ GenFail

Next == HandlerStep \/ EmitStep \/ GenStep

Spec == Init /\ [][Next]_vars

\* The event loop resumes the handler whenever the call it awaits has returned
\* or raised, and throws CancelledError into a cancelled task; the client
\* eventually sends a frame, stops or disconnects.  Nothing is assumed of how
\* long a send_json of the emit task takes.
FairSpec ==
    /\ Spec
    /\ WF_vars(HandlerStep)
    /\ WF_vars(\E delivered \in BOOLEAN : EmitCancelled(delivered))

\* The event loop resumes the emit task whenever the call it awaits has
\* returned or raised, and every send_json it makes returns or raises.
\* Nothing is assumed of the client: it may send nothing more and never stop.
LiveSpec ==
    /\ Spec
    /\ WF_vars(EmitStep)

(***************************************************************************)
(* TokenDeduplicator (token_deduplicator.py).                              *)
(***************************************************************************)
\* abs(a - b) on times that are naturals.
AbsDiff(a, b) == IF a >= b THEN a - b ELSE b - a

\* The Python slice s[-n:]: the last n elements, all of s when it has fewer;
\* -0 is 0, so s[-0:] is s[0:], the whole of s.
PyLast(s, n) ==
    IF n = 0 \/ Len(s) <= n THEN s
    ELSE SubSeq(s, Len(s) - n + 1, Len(s))

\* The loop of lines 52-56 over reversed(recent), from index i down.
RECURSIVE ScanReversed(_, _, _)
ScanReversed(recent, i, token) ==
    IF i = 0 THEN FALSE
    ELSE IF /\ recent[i].text = token.text
            /\ AbsDiff(recent[i].start, token.start) < DuplicateWindow
         THEN TRUE
         ELSE ScanReversed(recent, i - 1, token)

\* Fault variant of IsDuplicate: the window includes its end points.
IsDuplicateInclusive(history, token) ==
    \E i \in 1..Len(PyLast(history, Lookback)) :
        /\ PyLast(history, Lookback)[i].text = token.text
        /\ AbsDiff(PyLast(history, Lookback)[i].start, token.start)
               <= DuplicateWindow

\* Fault variant of IsDuplicate: the whole history is scanned.
IsDuplicateWholeHistory(history, token) ==
    ScanReversed(history, Len(history), token)

\* Fault variant of IsDuplicate: only the newest entry is compared.
IsDuplicateNewestOnly(history, token) ==
    /\ history # <<>>
    /\ history[Len(history)].text = token.text
    /\ AbsDiff(history[Len(history)].start, token.start) < DuplicateWindow

\* is_duplicate (lines 32-58) on a deduplicator whose token_history is
\* `history`.
IsDuplicate(history, token) ==
    IF history = <<>> THEN FALSE
    ELSE LET recent == PyLast(history, Lookback)
             recent_texts == {recent[i].text : i \in 1..Len(recent)}
         IN  IF token.text \in recent_texts
             THEN ScanReversed(recent, Len(recent), token)
             ELSE FALSE

\* What the token-processing calls leave alone besides their own object.
CallUnchanged == UNCHANGED <<sessVars, filterVars>>

\* deduplicator.is_duplicate(token): reads, changes nothing.
IsDuplicateCall(token) ==
    /\ lastOp = "idle"
    /\ lastOp' = "is_duplicate"
    /\ argTok' = token
    /\ retBool' = IsDuplicate(token_history, token)
    /\ UNCHANGED <<argTime, retToks, nOps>>
    /\ UNCHANGED <<dedupVars, silenceVars, stateVars, sinceFlush>>
    /\ CallUnchanged

\* The trimmed history of lines 67, 71-72.
AppendTrimmed(history, size, token) ==
    LET appended == Append(history, token) IN
    IF Len(appended) > size THEN PyLast(appended, size) ELSE appended

\* deduplicator.add_validated_token(token): lines 60-72.
AddValidatedToken(token) ==
    /\ lastOp = "idle"
    /\ lastOp' = "add_validated_token"
    /\ argTok' = token
    /\ token_history' = AppendTrimmed(token_history, history_size, token)
    /\ last_token_time' = token.end
    /\ nOps' = nOps + 1
    /\ UNCHANGED <<argTime, retBool, retToks>>
    /\ UNCHANGED <<history_size, similarity_threshold>>
    /\ UNCHANGED <<silenceVars, stateVars, sinceFlush>>
    /\ CallUnchanged

\* deduplicator.clear_history(): lines 74-78.
ClearHistory ==
    /\ lastOp = "idle"
    /\ lastOp' = "clear_history"
    /\ token_history' = <<>>
    /\ last_token_time' = 0
    /\ UNCHANGED <<argTok, argTime, retBool, retToks, nOps>>
    /\ UNCHANGED <<history_size, similarity_threshold>>
    /\ UNCHANGED <<silenceVars, stateVars, sinceFlush>>
    /\ CallUnchanged

\* The caller has taken the result of the last call and may call again.
Return ==
    /\ lastOp # "idle"
    /\ lastOp' = "idle"
    /\ argTok' = NoToken
    /\ argTime' = 0
    /\ retBool' = FALSE
    /\ retToks' = <<>>
    /\ UNCHANGED nOps
    /\ UNCHANGED <<dedupVars, silenceVars, stateVars, sinceFlush>>
    /\ CallUnchanged

\* A deduplicator alone, under every configuration of the bounded sets and
\* every order of calls.  The history sizes are the boundary 0, a small size
\* that evicts, and one larger than the lookback.
MaxAdds == 11
HistorySizes == {0, 2, MaxAdds}
Thresholds == {5, DefaultSimilarityThreshold}
HelloT == Tok("hello", 100, 103)
DedupAdded == {HelloT, Tok("the", 104, 107)}
DedupQueried ==
    {Tok("hello", s, s + 3) : s \in {94, 95, 96, 104, 105}}
        \cup {Tok("the", 100, 103)}

DedupInit ==
    /\ SessionInit
    /\ StateFresh
    /\ history_size \in HistorySizes
    /\ similarity_threshold \in Thresholds
    /\ CallIdle
    /\ nOps = 0
    /\ sinceFlush = <<>>
    /\ fedTokens = <<>>
    /\ emitted = <<>>

DedupNext ==
    \/ \E token \in DedupQueried : IsDuplicateCall(token)
    \/ \E token \in DedupAdded : nOps < MaxAdds /\ AddValidatedToken(token)
    \/ ClearHistory
    \/ Return

SpecDedup == DedupInit /\ [][DedupNext]_vars

(***************************************************************************)
(* SilenceStateManager (silence_state_manager.py).                         *)
(***************************************************************************)
\* What a call on the silence manager leaves alone.
SilenceCallUnchanged ==
    /\ UNCHANGED <<dedupVars, stateVars>>
    /\ CallUnchanged

\* Fault variant of EnterSilence: a second call stamps the silence again.
EnterSilenceRestamps(timestamp) ==
    /\ lastOp = "idle"
    /\ lastOp' = "enter_silence"
    /\ argTime' = timestamp
    /\ nOps' = nOps + 1
    /\ is_in_silence' = TRUE
    /\ silence_start_time' = Some(timestamp)
    /\ retToks' = pending_tokens
    /\ pending_tokens' = <<>>
    /\ sinceFlush' = <<>>
    /\ UNCHANGED <<last_speech_end_time, argTok, retBool>>
    /\ SilenceCallUnchanged

\* Fault variant of EnterSilence: the list is cleared before it is copied.
EnterSilenceClearsFirst(timestamp) ==
    /\ lastOp = "idle"
    /\ lastOp' = "enter_silence"
    /\ argTime' = timestamp
    /\ nOps' = nOps + 1
    /\ retToks' = <<>>
    /\ IF is_in_silence
       THEN UNCHANGED <<silenceVars, sinceFlush>>
       ELSE /\ is_in_silence' = TRUE
            /\ silence_start_time' = Some(timestamp)
            /\ pending_tokens' = <<>>
            /\ sinceFlush' = <<>>
            /\ UNCHANGED last_speech_end_time
    /\ UNCHANGED <<argTok, retBool>>
    /\ SilenceCallUnchanged

\* silence_state.enter_silence(timestamp): lines 27-48.
EnterSilence(timestamp) ==
    /\ lastOp = "idle"
    /\ lastOp' = "enter_silence"
    /\ argTime' = timestamp
    /\ nOps' = nOps + 1
    /\ IF is_in_silence
       THEN /\ retToks' = <<>>
            /\ UNCHANGED <<silenceVars, sinceFlush>>
       ELSE /\ is_in_silence' = TRUE
            /\ silence_start_time' = Some(timestamp)
            /\ retToks' = pending_tokens
            /\ pending_tokens' = <<>>
            /\ sinceFlush' = <<>>
            /\ UNCHANGED last_speech_end_time
    /\ UNCHANGED <<argTok, retBool>>
    /\ SilenceCallUnchanged

\* Fault variant of ExitSilence: the pending tokens are dropped when speech
\* resumes.
ExitSilenceFlushes(timestamp) ==
    /\ lastOp = "idle"
    /\ lastOp' = "exit_silence"
    /\ argTime' = timestamp
    /\ nOps' = nOps + 1
    /\ IF ~is_in_silence
       THEN UNCHANGED <<silenceVars, sinceFlush>>
       ELSE /\ is_in_silence' = FALSE
            /\ last_speech_end_time' = Some(timestamp)
            /\ silence_start_time' = None
            /\ pending_tokens' = <<>>
            /\ sinceFlush' = <<>>
    /\ UNCHANGED <<argTok, retBool, retToks>>
    /\ SilenceCallUnchanged

\* Fault variant of ExitSilence: silence_start_time is left set.
ExitSilenceKeepsStart(timestamp) ==
    /\ lastOp = "idle"
    /\ lastOp' = "exit_silence"
    /\ argTime' = timestamp
    /\ nOps' = nOps + 1
    /\ IF ~is_in_silence
       THEN UNCHANGED silenceVars
       ELSE /\ is_in_silence' = FALSE
            /\ last_speech_end_time' = Some(timestamp)
            /\ UNCHANGED <<silence_start_time, pending_tokens>>
    /\ UNCHANGED <<argTok, retBool, retToks, sinceFlush>>
    /\ SilenceCallUnchanged

\* Fault variant of ExitSilence: the guard of line 57 is missing.
ExitSilenceUnguarded(timestamp) ==
    /\ lastOp = "idle"
    /\ lastOp' = "exit_silence"
    /\ argTime' = timestamp
    /\ nOps' = nOps + 1
    /\ is_in_silence' = FALSE
    /\ last_speech_end_time' = Some(timestamp)
    /\ silence_start_time' = None
    /\ UNCHANGED pending_tokens
    /\ UNCHANGED <<argTok, retBool, retToks, sinceFlush>>
    /\ SilenceCallUnchanged

\* silence_state.exit_silence(timestamp): lines 50-65.  silence_duration
\* (line 60) is only logged.
ExitSilence(timestamp) ==
    /\ lastOp = "idle"
    /\ lastOp' = "exit_silence"
    /\ argTime' = timestamp
    /\ nOps' = nOps + 1
    /\ IF ~is_in_silence
       THEN UNCHANGED silenceVars
       ELSE /\ is_in_silence' = FALSE
            /\ last_speech_end_time' = Some(timestamp)
            /\ silence_start_time' = None
            /\ UNCHANGED pending_tokens
    /\ UNCHANGED <<argTok, retBool, retToks, sinceFlush>>
    /\ SilenceCallUnchanged

\* Fault variant of AddPendingToken: tokens are taken only during silence.
AddPendingTokenInSilenceOnly(token) ==
    /\ lastOp = "idle"
    /\ lastOp' = "add_pending_token"
    /\ argTok' = token
    /\ nOps' = nOps + 1
    /\ IF is_in_silence
       THEN /\ pending_tokens' = Append(pending_tokens, token)
            /\ sinceFlush' = Append(sinceFlush, token)
       ELSE UNCHANGED <<pending_tokens, sinceFlush>>
    /\ UNCHANGED <<is_in_silence, silence_start_time, last_speech_end_time>>
    /\ UNCHANGED <<argTime, retBool, retToks>>
    /\ SilenceCallUnchanged

\* silence_state.add_pending_token(token): lines 76-83.
AddPendingToken(token) ==
    /\ lastOp = "idle"
    /\ lastOp' = "add_pending_token"
    /\ argTok' = token
    /\ nOps' = nOps + 1
    /\ pending_tokens' = Append(pending_tokens, token)
    /\ sinceFlush' = Append(sinceFlush, token)
    /\ UNCHANGED <<is_in_silence, silence_start_time, last_speech_end_time>>
    /\ UNCHANGED <<argTime, retBool, retToks>>
    /\ SilenceCallUnchanged

\* The assignments of SilenceStateManager.reset_state: lines 98-102.
SilenceReset ==
    /\ is_in_silence' = FALSE
    /\ silence_start_time' = None
    /\ pending_tokens' = <<>>
    /\ last_speech_end_time' = None
    /\ sinceFlush' = <<>>

\* silence_state.reset_state(), called on the manager itself.
SilenceResetState ==
    /\ lastOp = "idle"
    /\ lastOp' = "silence_reset_state"
    /\ nOps' = nOps + 1
    /\ SilenceReset
    /\ UNCHANGED <<argTok, argTime, retBool, retToks>>
    /\ SilenceCallUnchanged

(***************************************************************************)
(* TokenProcessingState (token_processing_state.py).                       *)
(***************************************************************************)
\* The fields of the dataclass are public: the owner of the state assigns
\* last_output_time and last_token_id and fills buffer_validation_state.
FieldUnchanged ==
    /\ UNCHANGED <<dedupVars, silenceVars, callVars, sinceFlush>>
    /\ CallUnchanged

SetLastOutputTime(t) ==
    /\ lastOp = "idle"
    /\ last_output_time' = t
    /\ UNCHANGED <<last_token_id, buffer_validation_state>>
    /\ FieldUnchanged

SetLastTokenId(id) ==
    /\ lastOp = "idle"
    /\ last_token_id' = Some(id)
    /\ UNCHANGED <<last_output_time, buffer_validation_state>>
    /\ FieldUnchanged

SetBufferValidation(key) ==
    /\ lastOp = "idle"
    /\ buffer_validation_state' = buffer_validation_state \cup {key}
    /\ UNCHANGED <<last_output_time, last_token_id>>
    /\ FieldUnchanged

\* Fault variant of ResetState: the deduplicator is not cleared.
ResetStateKeepsHistory ==
    /\ lastOp = "idle"
    /\ lastOp' = "reset_state"
    /\ nOps' = nOps + 1
    /\ last_output_time' = 0
    /\ last_token_id' = None
    /\ SilenceReset
    /\ buffer_validation_state' = {}
    /\ UNCHANGED dedupVars
    /\ UNCHANGED <<argTok, argTime, retBool, retToks>>
    /\ CallUnchanged

\* state.reset_state(): lines 34-41, with SilenceStateManager.reset_state
\* (silence_state_manager.py:96-102) and TokenDeduplicator.clear_history
\* (token_deduplicator.py:74-78) inlined.
ResetState ==
    /\ lastOp = "idle"
    /\ lastOp' = "reset_state"
    /\ nOps' = nOps + 1
    /\ last_output_time' = 0
    /\ last_token_id' = None
    /\ SilenceReset
    /\ token_history' = <<>>
    /\ last_token_time' = 0
    /\ buffer_validation_state' = {}
    /\ UNCHANGED <<history_size, similarity_threshold>>
    /\ UNCHANGED <<argTok, argTime, retBool, retToks>>
    /\ CallUnchanged

\* A TokenProcessingState as constructed, under every order of at most MaxOps
\* calls on it and its two components, with field assignments in between.
MaxOps == 5
Times == {0, 5}
TheT == Tok("the", 0, 3)
CatT == Tok("cat", 6, 9)
StateTokens == {TheT, CatT}

StateNext ==
    \/ \E t \in Times : nOps < MaxOps /\ EnterSilence(t)
    \/ \E t \in Times : nOps < MaxOps /\ ExitSilence(t)
    \/ \E token \in StateTokens : nOps < MaxOps /\ AddPendingToken(token)
    \/ nOps < MaxOps /\ SilenceResetState
    \/ \E token \in StateTokens : nOps < MaxOps /\ AddValidatedToken(token)
    \/ SetLastOutputTime(3)
    \/ SetLastTokenId("id")
    \/ SetBufferValidation("key")
    \/ nOps < MaxOps /\ ResetState
    \/ Return

SpecState == Init /\ [][StateNext]_vars

(***************************************************************************)
(* The dedup filter over a TokenDeduplicator with the default              *)
(* configuration.  The loop that feeds recognizer tokens to is_duplicate   *)
(* and add_validated_token is not part of the sources: it is taken as      *)
(* described, a token is emitted and recorded iff is_duplicate is false    *)
(* for it.                                                                 *)
(***************************************************************************)
MaxStream == 4
FilterTokens == {Tok(x, s, s + 3) : x \in {"the", "cat"}, s \in {0, 3, 6}}

Feed(token) ==
    /\ lastOp = "idle"
    /\ Len(fedTokens) < MaxStream
    /\ fedTokens' = Append(fedTokens, token)
    /\ IF IsDuplicate(token_history, token)
       THEN UNCHANGED <<emitted, token_history, last_token_time>>
       ELSE /\ emitted' = Append(emitted, token)
            /\ token_history' =
                   AppendTrimmed(token_history, history_size, token)
            /\ last_token_time' = token.end
    /\ UNCHANGED <<history_size, similarity_threshold>>
    /\ UNCHANGED <<sessVars, silenceVars, stateVars, callVars, sinceFlush>>

FilterNext == \E token \in FilterTokens : Feed(token)

SpecFilter == Init /\ [][FilterNext]_vars

(***************************************************************************)
(* Views of the logs used by the properties.                               *)
(***************************************************************************)
IsEmitCall(e) == e.by = "emit"
IsDelta(e) == e.msg.type = "delta"
IsReady(e) == e.msg.type = "ready_to_stop"
IsDeliveredDelta(e) == e.by = "emit" /\ e.msg.type = "delta" /\ e.res = "ok"

\* The send_json calls of handle_websocket_results, in call order.
EmitCalls == SelectSeq(sendLog, IsEmitCall)
\* The deltas the emit task put on the wire, in order.
DeltasSent == SelectSeq(sendLog, IsDeliveredDelta)
\* The ready_to_stop sends of the session, by whichever task.
ReadyCalls == SelectSeq(sendLog, IsReady)

EmitSendInFlight == epc \in {"sendDelta", "sendReady"}

(***************************************************************************)
(* C1.  Claim: once a session that entered Active leaves it, the emit task *)
(* is cancelled and has terminated before the processor's cleanup starts:  *)
(* in no reachable state has cleanup begun while the emit task has not     *)
(* ended.  The finally block of basic_server.py calls cleanup() first, so  *)
(* TLC finds this violated.                                                *)
(***************************************************************************)
C1_CleanupAfterEmitEnded ==
    (cleanupCalls > 0 /\ epc # "none") => epc \in EmitEnded

(***************************************************************************)
(* C2.  The deltas sent to the client by the emit task are, in every       *)
(* state, a prefix of the produced sequence 1, 2, ..., produced: the i-th  *)
(* delta on the wire is the i-th delta produced, so none is skipped, sent  *)
(* twice or reordered; and only the emit task sends deltas.                *)
(***************************************************************************)
C2_DeltasArePrefix ==
    /\ Len(DeltasSent) <= produced
    /\ \A i \in 1..Len(DeltasSent) : DeltasSent[i].msg.id = i
    /\ \A i \in 1..Len(sendLog) : IsDelta(sendLog[i]) => IsEmitCall(sendLog[i])

\* C2 witness: both deltas are on the wire, with a capability reply of the
\* ingest loop sent in between them.
C2_Witness ==
    /\ Len(DeltasSent) = 2
    /\ \E i, j, k \in 1..Len(sendLog) :
          /\ i < j /\ j < k
          /\ IsDeliveredDelta(sendLog[i])
          /\ sendLog[j].by = "ingest"
          /\ IsDeliveredDelta(sendLog[k])

(***************************************************************************)
(* C3, as claimed: while the emit task runs, the ingest task sends nothing *)
(* on the connection.  Lines 152-162 answer a config frame from the ingest *)
(* loop, so TLC finds this violated.                                       *)
(***************************************************************************)
C3_EmitIsOnlyWriter ==
    ~(hpc = "cfgReply" /\ epc \in EmitRunning)

(***************************************************************************)
(* C3, amended: the emit task is the only writer of transcript deltas and  *)
(* of ready_to_stop; the handler (handshake or ingest loop) sends nothing  *)
(* but capability replies, and the ingest loop has one in flight only      *)
(* while it answers a config frame.                                        *)
(***************************************************************************)
C3_EmitOwnsDeltasAndReady ==
    /\ \A i \in 1..Len(sendLog) :
          (IsDelta(sendLog[i]) \/ IsReady(sendLog[i])) <=> IsEmitCall(sendLog[i])
    /\ \A i \in 1..Len(sendLog) :
          (sendLog[i].by # "emit" /\ sendLog[i].res = "inflight")
              => (sendLog[i].by = "ingest" /\ hpc = "cfgReply")

\* C3 witness: a capability reply of the ingest loop and a delta of the emit
\* task are in flight at once.
C3_Witness ==
    hpc = "cfgReply" /\ epc = "sendDelta"

(***************************************************************************)
(* C4.  When the emit task has ended by itself with the generator          *)
(* exhausted and no delta send failed, it made exactly one ready_to_stop   *)
(* send, as its last send, after every produced delta was sent.  In every  *)
(* state there is at most one ready_to_stop send in the session, and no    *)
(* delta is sent after it.                                                 *)
(***************************************************************************)
C4_ReadyOnceAfterLastDelta ==
    /\ Len(ReadyCalls) <= 1
    /\ \A i, j \in 1..Len(sendLog) :
          (i < j /\ IsReady(sendLog[i])) => ~IsDelta(sendLog[j])
    /\ (/\ epc = "done"
        /\ genState = "closed"
        /\ \A i \in 1..Len(EmitCalls) :
              IsDelta(EmitCalls[i]) => EmitCalls[i].res = "ok")
       => /\ Len(ReadyCalls) = 1
          /\ EmitCalls # <<>>
          /\ IsReady(EmitCalls[Len(EmitCalls)])
          /\ EmitCalls[Len(EmitCalls)].res \in {"ok", "fail"}
          /\ Len(DeltasSent) = produced
          /\ results = <<>>

\* C4 witness: the generator ended after two deltas and the emit task ended
\* with ready_to_stop on the wire while the ingest loop is still running.
C4_Witness ==
    /\ epc = "done"
    /\ hpc = "ingest"
    /\ Len(DeltasSent) = 2
    /\ Len(ReadyCalls) = 1
    /\ ReadyCalls[1].res = "ok"

(***************************************************************************)
(* C5.  Claim: when the handshake loop receives a message that is neither  *)
(* a config probe nor a start command, the connection is closed with code  *)
(* 1003 and the session never becomes Active (no processor, no emit task,  *)
(* no cleanup, no audio forwarded).  A message that is JSON but not an     *)
(* object ends the handler without close(1003), so TLC finds this          *)
(* violated.                                                               *)
(***************************************************************************)
C5_OtherMessageCloses1003 ==
    hsEnd \in {"other", "nonobject"}
        => /\ closeCode = CloseInvalidData
           /\ hpc = "done"
           /\ apState = "none"
           /\ epc = "none"
           /\ cleanupCalls = 0
           /\ audioLog = <<>>

IsHandshakeCall(e) == e.by = "handshake"
\* The capability replies of the handshake loop, in call order.
HandshakeReplies == SelectSeq(sendLog, IsHandshakeCall)

\* The session is, or has been, Active: the processor was constructed and
\* the emit task spawned (lines 123-131).
EnteredActive == epc # "none"

(***************************************************************************)
(* C6, as claimed: in the handshake every config probe is answered with    *)
(* exactly one capability reply and leaves the session in the handshake;   *)
(* the session becomes Active only on a start command, and a start command *)
(* always makes it Active.  A reply whose send raises, or a processor      *)
(* whose construction raises, ends the handler instead, so TLC finds this  *)
(* violated.                                                               *)
(***************************************************************************)
C6_ProbesStayStartActivates ==
    /\ Len(HandshakeReplies) = hsProbes
    /\ hsEnd # "config"
    /\ EnteredActive => hsEnd = "start"
    /\ hsEnd = "start" => EnteredActive

(***************************************************************************)
(* C6, amended: every config probe of the handshake is answered with       *)
(* exactly one capability reply send and, unless that send raises (the     *)
(* handler then ends, never Active), leaves the session in the handshake;  *)
(* the session becomes Active only on a start command; a start command     *)
(* makes it Active unless constructing the processor or creating its       *)
(* tasks raises (the handler then ends without an emit task).              *)
(***************************************************************************)
C6_ProbesStayUnlessSendFails ==
    /\ Len(HandshakeReplies) = hsProbes
    /\ \A i \in 1..Len(HandshakeReplies) :
          /\ HandshakeReplies[i].msg = ConfigMsg
          /\ HandshakeReplies[i].res = "fail"
                <=> (i = Len(HandshakeReplies) /\ hsEnd = "config")
    /\ hsEnd = "config" => (hsFail = "send" /\ hpc = "done" /\ ~EnteredActive)
    /\ hpc = "handshake" <=> hsEnd = "none"
    /\ EnteredActive => (hsEnd = "start" /\ hsFail = "none")
    /\ hsEnd = "start" =>
          /\ hsFail \in {"none", "ctor", "tasks"}
          /\ hsFail = "none" => (EnteredActive /\ apState # "none")
          /\ hsFail = "ctor" => (apState = "none" /\ hpc = "done")
          /\ hsFail = "tasks" => (~EnteredActive /\ apState # "none")

\* C6 witness: two probes were answered in the handshake and a start command
\* then made the session Active.
C6_Witness ==
    /\ hsProbes = 2
    /\ Len(HandshakeReplies) = 2
    /\ hsEnd = "start"
    /\ hpc = "ingest"
    /\ epc = "waitNext"

(***************************************************************************)
(* C7.  Claim: after a stop command received mid-stream the emit task is   *)
(* cancelled and awaited and processor teardown is invoked exactly once,   *)
(* so that the handler ends with the emit task terminated.  When           *)
(* cleanup() raises the task is never cancelled, so TLC finds this         *)
(* violated.                                                               *)
(***************************************************************************)
C7_StopTearsDownOnce ==
    (hpc = "done" /\ exitReason = "stop")
        => /\ cleanupCalls = 1
           /\ epc \in EmitEnded
           /\ teardownLog = <<"cleanup", "cancel", "await">>
              \/ teardownLog = <<"cancel", "await", "cleanup">>

(***************************************************************************)
(* C8.  A disconnect in Active and a stop command in Active lead to the    *)
(* same draining: the step that leaves the ingest loop changes nothing but *)
(* the handler's position (to the finally block) and the recorded reason,  *)
(* and from there on the sequence of teardown calls made so far depends on *)
(* the handler's position alone, not on the reason; no teardown call is    *)
(* made twice.                                                             *)
(***************************************************************************)
TeardownSoFar ==
    CASE hpc = "finally" -> <<>>
      [] hpc = "awaitTask" -> <<"cleanup", "cancel">>
      [] hpc = "done" -> IF escaped THEN <<"cleanup">>
                                    ELSE <<"cleanup", "cancel", "await">>
      [] OTHER -> <<"unreachable">>

C8_SameDrainingState ==
    exitReason \in {"stop", "disconnect"}
        => /\ teardownLog = TeardownSoFar
           /\ cleanupCalls = (IF hpc = "finally" THEN 0 ELSE 1)

C8_SameLeavingStep ==
    (exitReason = "none" /\ exitReason' \in {"stop", "disconnect"})
        => /\ hpc = "ingest"
           /\ hpc' = "finally"
           /\ UNCHANGED <<epc, cancelReq, emitEnd, apState, genState, results,
                          produced, cur, sendLog, audioLog, rxBinary,
                          teardownLog, cleanupCalls, closeCode, escaped,
                          connGone, nRecv, hsProbes, hsEnd, hsFail>>

\* C8: stop and disconnect leave the loop by the same step and drain by the
\* same sequence of teardown calls.
C8_DisconnectDrainsLikeStop ==
    [](C8_SameDrainingState) /\ [][C8_SameLeavingStep]_vars

\* C8 witness: a session left by a disconnect while the emit task was
\* running has gone through the whole teardown.
C8_Witness ==
    /\ exitReason = "disconnect"
    /\ hpc = "done"
    /\ emitEnd = "cancelled"
    /\ teardownLog = <<"cleanup", "cancel", "await">>

(***************************************************************************)
(* C9.  When a send of the emit task fails, the task ends without sending  *)
(* anything further (the failed send is its last) and without raising; the *)
(* step in which it fails leaves the handler where it was, so the ingest   *)
(* loop runs on until its own stop, disconnect or error; and the handler   *)
(* then still goes through its finally block to its end.                   *)
(***************************************************************************)
IsFailedEmitCall(e) == e.by = "emit" /\ e.res = "fail"
EmitSendFailed == SelectSeq(sendLog, IsFailedEmitCall) # <<>>

C9_FailedSendIsLast ==
    EmitSendFailed
        => /\ epc = "done"
           /\ emitEnd \in {"sendFailed", "readyFailed"}
           /\ EmitCalls[Len(EmitCalls)].res = "fail"
           /\ Len(SelectSeq(sendLog, IsFailedEmitCall)) = 1
           /\ emitEnd = "sendFailed" => ReadyCalls = <<>>
           /\ hpc \in {"finally", "awaitTask", "done"} => exitReason # "none"

C9_FailureStaysInEmitTask ==
    (~EmitSendFailed /\ EmitSendFailed')
        => UNCHANGED <<hpc, exitReason, teardownLog, cleanupCalls, escaped,
                       apState, audioLog, connGone>>

\* C9: a failed send ends the emit task quietly, leaves the handler alone,
\* and the handler still reaches its end.
C9_SendFailureIsLocal ==
    /\ [](C9_FailedSendIsLast)
    /\ [][C9_FailureStaysInEmitTask]_vars
    /\ (EmitSendFailed ~> hpc = "done")

\* C9 witness: the send of the first delta failed with another delta still
\* pending, the ingest loop ran on and forwarded audio, and the handler
\* ended through the whole finally block.
C9_Witness ==
    /\ emitEnd = "sendFailed"
    /\ results # <<>>
    /\ DeltasSent = <<>>
    /\ audioLog # <<>>
    /\ hpc = "done"
    /\ teardownLog = <<"cleanup", "cancel", "await">>

(***************************************************************************)
(* C10.  Claim: cleanup is attempted for every session that entered        *)
(* Active, and when it raises the emit task is still cancelled and         *)
(* terminated and the error does not leave the session handler.  The       *)
(* finally block has no handler around cleanup(), so TLC finds this        *)
(* violated.                                                               *)
(***************************************************************************)
C10_CleanupFailureContained ==
    (hpc = "done" /\ EnteredActive)
        => /\ cleanupCalls = 1
           /\ ~escaped
           /\ epc \in EmitEnded

(***************************************************************************)
(* Properties of TokenDeduplicator, checked under SpecDedup.               *)
(***************************************************************************)
\* The entries is_duplicate reads: the 10 most recent ones.
Recent == PyLast(token_history, Lookback)
InSeq(x, s) == \E i \in 1..Len(s) : s[i] = x
HelloQueried == lastOp = "is_duplicate" /\ argTok.text = "hello"

\* C11 as stated: with the validated token ("hello", 10.0) in the history,
\* is_duplicate of a "hello" token is true exactly when its start lies in
\* [9.5, 10.5), the lower bound 9.5 included.
C11_WindowHalfOpen ==
    (HelloQueried /\ InSeq(HelloT, token_history))
        => (retBool <=> (95 <= argTok.start /\ argTok.start < 105))

\* C11 amended: with the validated token ("hello", 10.0) among the 10 most
\* recent history entries, is_duplicate of a "hello" token is true exactly
\* when its start lies strictly between 9.5 and 10.5; at 9.5 and at 10.5 the
\* distance is 0.5, which is not less than 0.5, and the answer is false.
C11_WindowOpen ==
    (HelloQueried /\ InSeq(HelloT, Recent))
        => (retBool <=> (95 < argTok.start /\ argTok.start < 105))

\* is_duplicate has answered false for ("hello", 9.5) with ("hello", 10.0) in
\* the lookback.
C11_Witness ==
    /\ HelloQueried
    /\ argTok.start = 95
    /\ InSeq(HelloT, Recent)
    /\ retBool = FALSE

\* C12, the invariant it states: for every configured history_size, the
\* boundary value 0 included, and every sequence of add_validated_token and
\* clear_history calls, len(history) <= history_size in every reachable
\* state.
C12_HistoryBounded == Len(token_history) <= history_size

\* Entry i of the history has the text of `token` and a start less than 0.5 s
\* from its start.
Matches(i, token) ==
    /\ token_history[i].text = token.text
    /\ AbsDiff(token_history[i].start, token.start) < DuplicateWindow

C14_StartTimeIffInSilence == (silence_start_time # None) <=> is_in_silence

\* exit_silence has ended a silence: the start time is null again and the
\* end of the silence is recorded.
C14_Witness ==
    /\ lastOp = "exit_silence"
    /\ ~is_in_silence
    /\ silence_start_time = None
    /\ last_speech_end_time # None

\* C15: enter_silence called while already in Silence (a second call with no
\* exit_silence or reset_state in between) returns the empty sequence and
\* leaves is_in_silence and silence_start_time as the first call set them.
C15_EnterSilenceIdempotent ==
    [][(is_in_silence /\ lastOp' = "enter_silence")
           => /\ retToks' = <<>>
              /\ UNCHANGED <<is_in_silence, silence_start_time>>]_vars

\* A second enter_silence has returned, with a timestamp other than the one
\* the silence began at.
C15_Witness ==
    /\ lastOp = "enter_silence"
    /\ is_in_silence
    /\ silence_start_time # Some(argTime)

\* C16 as stated: in every reachable state, enter_silence(t) returns exactly
\* the tokens added via add_pending_token since pending_tokens was last
\* emptied, in order, and pending_tokens is empty right after the call.
C16_EnterSilenceFlushes ==
    [][lastOp' = "enter_silence"
           => /\ retToks' = sinceFlush
              /\ pending_tokens' = <<>>]_vars

\* C16 amended: enter_silence(t) called in Speech returns exactly the tokens
\* added via add_pending_token since pending_tokens was last emptied, in
\* order, and pending_tokens is empty right after; called in Silence it
\* returns the empty sequence and leaves pending_tokens as they are, so tokens
\* added during a silence stay pending until the next enter_silence made in
\* Speech.
C16_EnterSilenceFlushesFromSpeech ==
    [][lastOp' = "enter_silence"
           => IF is_in_silence
              THEN retToks' = <<>> /\ UNCHANGED pending_tokens
              ELSE /\ retToks' = sinceFlush
                   /\ pending_tokens' = <<>>]_vars

\* enter_silence, called in Speech after an earlier silence had ended, has
\* handed back the pending tokens and left none.
C16_Witness ==
    /\ lastOp = "enter_silence"
    /\ retToks # <<>>
    /\ last_speech_end_time # None
    /\ pending_tokens = <<>>

\* C17: exit_silence(t) called in Speech changes none of is_in_silence,
\* silence_start_time, last_speech_end_time and pending_tokens, and returns.
C17_ExitSilenceInSpeechNoOp ==
    [][(~is_in_silence /\ lastOp' = "exit_silence")
           => UNCHANGED silenceVars]_vars

\* exit_silence has returned on a manager that was in Speech: no silence was
\* ever ended, and a token is still pending.
C17_Witness ==
    /\ lastOp = "exit_silence"
    /\ ~is_in_silence
    /\ last_speech_end_time = None
    /\ pending_tokens # <<>>

\* C18: reset_state() leaves every observable field as in a freshly
\* constructed TokenProcessingState.
C18_ResetIsFresh == lastOp = "reset_state" => StateFresh

\* reset_state has returned as the fourth call or later on the state.
C18_Witness ==
    /\ lastOp = "reset_state"
    /\ nOps >= 4
    /\ StateFresh

\* C19 as stated: pending_tokens grows only through a step taken while
\* is_in_silence is true; add_pending_token in Speech never adds to it.
C19_PendingGrowsOnlyInSilence ==
    [][Len(pending_tokens') > Len(pending_tokens) => is_in_silence]_vars

\* C19 amended: pending_tokens grows only through add_pending_token, and
\* add_pending_token appends its token in either state, Speech included.
C19_PendingGrowsOnlyByAdd ==
    [][/\ Len(pending_tokens') > Len(pending_tokens)
           => lastOp' = "add_pending_token"
       /\ lastOp' = "add_pending_token"
           => pending_tokens' = Append(pending_tokens, argTok')]_vars

\* add_pending_token has appended its token on a manager in Speech.
C19_Witness ==
    /\ lastOp = "add_pending_token"
    /\ ~is_in_silence
    /\ pending_tokens # <<>>
    /\ pending_tokens[Len(pending_tokens)] = argTok

(***************************************************************************)
(* Property of the dedup filter, checked under SpecFilter.                 *)
(***************************************************************************)
\* C20: no emitted token has the text of, and a start within 0.5 s of, any
\* of the 10 tokens emitted immediately before it; and for the input
\* ("the", 0.0, 0.3), ("the", 0.3, 0.6), ("cat", 0.6, 0.9) the emitted
\* sequence is ("the", 0.0, 0.3), ("cat", 0.6, 0.9).
C20_FilterSuppressesNearDuplicates ==
    /\ \A j \in 1..Len(emitted) : \A i \in 1..Len(emitted) :
           (i < j /\ i + Lookback >= j)
               => ~ /\ emitted[i].text = emitted[j].text
                    /\ AbsDiff(emitted[i].start, emitted[j].start)
                           < DuplicateWindow
    /\ fedTokens = <<TheT, Tok("the", 3, 6), CatT>>
           => emitted = <<TheT, CatT>>

\* The three tokens of the example have been fed and the second "the" was
\* suppressed.
C20_Witness ==
    /\ fedTokens = <<TheT, Tok("the", 3, 6), CatT>>
    /\ emitted = <<TheT, CatT>>

(***************************************************************************)
(* Properties of the session (C21-C23, C25), checked under Spec and        *)
(* LiveSpec.                                                               *)
(***************************************************************************)
\* The first binary frame of the session was the zero-length one.
EofFirst == rxBinary # <<>> /\ rxBinary[1] = 0

\* The emit task has ended after a ready_to_stop that was sent.
EmitFinishedWithReady ==
    /\ epc = "done"
    /\ emitEnd = "finished"
    /\ Len(ReadyCalls) = 1
    /\ ReadyCalls[1].res = "ok"

\* The emit task was stopped from outside: the handler cancelled it, or the
\* connection failed one of its sends.
EmitStopped ==
    \/ cancelReq
    \/ emitEnd \in {"sendFailed", "readyFailed", "cancelled"}

C21_EofIsForwarded == EofFirst => (audioLog # <<>> /\ audioLog[1] = 0)

C21_EmitEndLeavesIngest ==
    (epc \in EmitRunning /\ epc' \in EmitEnded)
        => UNCHANGED <<hpc, exitReason, audioLog, teardownLog>>

\* C21: a zero-length binary frame sent right after start, with no audio
\* before it, is forwarded to the session processor; once the processor has
\* closed its delta sequence the emit task sends ready_to_stop and ends
\* without error, unless the handler cancels it or a send fails first; and
\* the end of the emit task leaves the ingest loop where it is.
C21_EofStillReady ==
    /\ [](C21_EofIsForwarded)
    /\ [][C21_EmitEndLeavesIngest]_vars
    /\ (EofFirst /\ genState = "closed" /\ epc \in EmitRunning)
           ~> (EmitFinishedWithReady \/ EmitStopped)

\* The zero-length frame was the only frame after start, the emit task has
\* sent ready_to_stop and ended, and the ingest loop is still running.
C21_Witness ==
    /\ audioLog = <<0>>
    /\ rxBinary = <<0>>
    /\ rxText = <<>>
    /\ EmitFinishedWithReady
    /\ hpc = "ingest"
    /\ exitReason = "none"

\* C22: the payloads passed to process_audio are the payloads of the binary
\* frames received in Active, one call per frame, in the order received,
\* whatever text frames lie between them and whatever the emit task does.
C22_AudioInOrder == audioLog = rxBinary

\* Two different binary frames were forwarded in the order received, and the
\* emit task has delivered a delta.
C22_Witness ==
    /\ rxBinary = <<1, 0>>
    /\ audioLog = <<1, 0>>
    /\ DeltasSent # <<>>

\* C23: once the session handler has finished, by stop, disconnect, protocol
\* violation or an error during teardown, the emit task is not running (so
\* it sends nothing more on the connection).
C23_ClosedIsTerminal == hpc = "done" => epc \notin EmitRunning

(***************************************************************************)
(* Property of SilenceStateManager (C24), checked under SpecState.         *)
(***************************************************************************)
C24_ExitKeepsPending ==
    lastOp' = "exit_silence" => UNCHANGED pending_tokens

C24_PendingLeaveOnlyByFlush ==
    pending_tokens' # pending_tokens /\ lastOp' # "add_pending_token"
        => \/ /\ lastOp' = "enter_silence"
              /\ ~is_in_silence
              /\ retToks' = pending_tokens
              /\ pending_tokens' = <<>>
           \/ /\ lastOp' \in {"silence_reset_state", "reset_state"}
              /\ pending_tokens' = <<>>

\* C24: exit_silence leaves pending_tokens unchanged in every state; tokens
\* pending at the Silence-to-Speech transition stay pending through the
\* Speech period, and leave pending_tokens only by being returned by the
\* next enter_silence called in Speech or by being discarded by reset_state.
C24_PendingSurvivesExit ==
    [][C24_ExitKeepsPending /\ C24_PendingLeaveOnlyByFlush]_vars

\* exit_silence has ended a silence with a token pending: the manager is in
\* Speech and the token is still pending.
C24_Witness ==
    /\ lastOp = "exit_silence"
    /\ ~is_in_silence
    /\ last_speech_end_time = Some(argTime)
    /\ pending_tokens # <<>>

(***************************************************************************)
(* Property of the ingest loop (C25), checked under Spec.                  *)
(***************************************************************************)
\* The step received a text frame of one of the given kinds.
TextFrameStep(kinds) ==
    /\ Len(rxText') = Len(rxText) + 1
    /\ rxText'[Len(rxText')] \in kinds

\* The step leaves the session as it is: nothing sent, nothing forwarded, no
\* teardown, the ingest loop and the emit task where they were.
SessionUntouched ==
    UNCHANGED <<hpc, epc, cancelReq, emitEnd, apState, sendLog, audioLog,
                teardownLog, cleanupCalls, exitReason, closeCode>>

\* C25: in Active, a text frame that is not valid JSON, or that is JSON with
\* neither type "config" nor command "stop", is ignored: no outbound
\* message, no process_audio call, no teardown step, the session stays
\* Active with the emit task running.
C25_OtherTextIgnored ==
    [][TextFrameStep({"ignored", "nonobject"}) => SessionUntouched]_vars

====
